---------------------------- MODULE Spec2Model ----------------------------
(***************************************************************************)
(* A model of explore-avro: the conversion of decoded Avro values to their *)
(* display string (format_avro_value / Display for AvroValue) and to JSON  *)
(* (to_json), the field projection of CliService::get_fields, and the      *)
(* printers of main.rs.                                                    *)
(*                                                                         *)
(* Strings are TLA+ strings, built with \o.  64-bit integers do not fit    *)
(* the model checker's integers, so an i64 (or i128) is a "Big": a tuple   *)
(* <<l1, .., l6, top>> that denotes top * 1000^6 + SUM l_i * 1000^(i-1),   *)
(* with every l_i in 0..999 and top any (small) integer.  Dividing by a    *)
(* power of 1000, rounding down, is then a shift of the limbs.             *)
(***************************************************************************)
EXTENDS Integers, Sequences, FiniteSets, TLC

(***************************************************************************)
(* Big integers                                                            *)
(***************************************************************************)
BigLimbs == 1..7

\* -x
BigNeg(x) ==
    LET n == Len(x)
        borrow[i \in 0..(n - 1)] ==
            IF i = 0 THEN 0 ELSE IF x[i] + borrow[i - 1] > 0 THEN 1 ELSE 0
    IN  [i \in 1..n |->
            IF i < n THEN (1000 - x[i] - borrow[i - 1]) % 1000
                     ELSE (0 - x[n]) - borrow[n - 1]]

\* The Big with the magnitude whose groups of three decimal digits are
\* `groups', most significant first, negated when `neg'.
BigLit(neg, groups) ==
    LET g   == Len(groups)
        mag == [i \in BigLimbs |-> IF i <= g THEN groups[g + 1 - i] ELSE 0]
    IN  IF neg THEN BigNeg(mag) ELSE mag

\* The widening of a 32-bit integer ((*i).into()).
BigFromInt(n) ==
    LET sh[i \in BigLimbs] == IF i = 1 THEN n ELSE sh[i - 1] \div 1000
    IN  [i \in BigLimbs |-> IF i < 7 THEN sh[i] % 1000 ELSE sh[i]]

BigIsNeg(x) == x[7] < 0

BigLess(a, b) ==
    \E i \in BigLimbs : a[i] < b[i] /\ \A j \in (i + 1)..7 : a[j] = b[j]

BigLeq(a, b) == a = b \/ BigLess(a, b)

Pow1000(e) == CASE e = 0 -> 1 [] e = 1 -> 1000 [] e = 2 -> 1000000 [] e = 3 -> 1000000000

\* floor(x / 1000^e), for e in 0..3
BigShr(x, e) ==
    [i \in BigLimbs |->
        IF i + e <= 6 THEN x[i + e]
        ELSE IF i < 7 THEN (x[7] \div Pow1000(i + e - 7)) % 1000
        ELSE x[7] \div Pow1000(e)]

\* x mod 1000^e as an integer in 0 .. 1000^e - 1, for e in 0..3
BigLow(x, e) ==
    CASE e = 0 -> 0
      [] e = 1 -> x[1]
      [] e = 2 -> x[1] + 1000 * x[2]
      [] e = 3 -> x[1] + 1000 * x[2] + 1000000 * x[3]

\* floor(x / d) and x mod d, for a divisor 0 < d < 2000000
BigDivSmall(x, d) ==
    LET rem[i \in BigLimbs] ==
            IF i = 7 THEN x[7] % d ELSE (rem[i + 1] * 1000 + x[i]) % d
        quo == [i \in BigLimbs |->
                    IF i = 7 THEN x[7] \div d
                    ELSE (rem[i + 1] * 1000 + x[i]) \div d]
    IN  [q |-> quo, r |-> rem[1]]

\* The integer a Big denotes, when it fits.
BigToInt(x) ==
    LET h[i \in BigLimbs] == IF i = 7 THEN x[7] ELSE h[i + 1] * 1000 + x[i]
    IN  h[1]

(***************************************************************************)
(* Decimal text                                                            *)
(***************************************************************************)
\* n >= 0 in at least w digits, padded with zeros on the left
RECURSIVE PadN(_, _)
PadN(n, w) ==
    IF w <= 1 THEN ToString(n) ELSE PadN(n \div 10, w - 1) \o ToString(n % 10)

\* the decimal text of a non-negative Big
BigMagToString(x) ==
    LET hi == IF \E i \in BigLimbs : x[i] # 0
              THEN CHOOSE i \in BigLimbs : x[i] # 0 /\ \A j \in (i + 1)..7 : x[j] = 0
              ELSE 1
        txt[i \in 1..hi] ==
            IF i = hi THEN ToString(x[i]) ELSE txt[i + 1] \o PadN(x[i], 3)
    IN  txt[1]

\* format!("{}", n) of an integer
BigToString(x) ==
    IF BigIsNeg(x) THEN "-" \o BigMagToString(BigNeg(x)) ELSE BigMagToString(x)

(***************************************************************************)
(* Results: Ok(v), Err(e) (a miette error returned with `?') and Panic(m)  *)
(* (the thread unwinds: nothing more is computed or printed).              *)
(***************************************************************************)
Ok(v) == [tag |-> "Ok", val |-> v]
Err(e) == [tag |-> "Err", err |-> e]
Panic(m) == [tag |-> "Panic", msg |-> m]
IsOk(r) == r.tag = "Ok"

(***************************************************************************)
(* jiff: timestamps, civil times, zoned date-times and spans               *)
(***************************************************************************)
\* Timestamp::MIN and Timestamp::MAX, in seconds since the epoch
TimestampMinSecond == BigLit(TRUE, <<377, 705, 23, 201>>)
TimestampMaxSecond == BigLit(FALSE, <<253, 402, 207, 200>>)

\* Timestamp::from_second (e = 0), from_millisecond (1), from_microsecond (2)
\* and from_nanosecond (3): the instant `count' units of 1000^-e seconds
\* after the epoch, or an error when it is not in Timestamp::MIN..MAX.
TimestampFrom(count, e) ==
    LET sec == BigShr(count, e)
    IN  IF BigLeq(TimestampMinSecond, sec) /\ BigLeq(sec, TimestampMaxSecond)
        THEN Ok([sec |-> sec, nano |-> BigLow(count, e) * Pow1000(3 - e)])
        ELSE Err("timestamp out of range")

\* The proleptic Gregorian date of the day `days' days after 1970-01-01.
CivilFromDays(days) ==
    LET z   == days + 719468
        era == z \div 146097
        doe == z - era * 146097
        yoe == (doe - doe \div 1460 + doe \div 36524 - doe \div 146096) \div 365
        doy == doe - (365 * yoe + yoe \div 4 - yoe \div 100)
        mp  == (5 * doy + 2) \div 153
        m   == IF mp < 10 THEN mp + 3 ELSE mp - 9
    IN  [year  |-> yoe + era * 400 + (IF m <= 2 THEN 1 ELSE 0),
         month |-> m,
         day   |-> doy - (153 * mp + 2) \div 5 + 1]

\* the fraction of a second, shortest form: nothing when it is zero
RECURSIVE FractionDigits(_, _)
FractionDigits(n, w) ==
    IF n % 10 = 0 THEN FractionDigits(n \div 10, w - 1) ELSE PadN(n, w)

FractionString(nano) == IF nano = 0 THEN "" ELSE "." \o FractionDigits(nano, 9)

YearString(y) == IF y < 0 THEN "-" \o PadN(0 - y, 6) ELSE PadN(y, 4)

\* hh:mm:ss[.fraction] of the second-of-day sod
ClockString(sod, nano) ==
    PadN(sod \div 3600, 2) \o ":" \o PadN((sod \div 60) % 60, 2) \o ":"
        \o PadN(sod % 60, 2) \o FractionString(nano)

\* The civil date-time of instant ts at `offset' seconds east of UTC.
DateTimeString(ts, offset) ==
    LET qr    == BigDivSmall(ts.sec, 86400)
        local == qr.r + offset
        days  == BigToInt(qr.q) + (local \div 86400)
        date  == CivilFromDays(days)
    IN  YearString(date.year) \o "-" \o PadN(date.month, 2) \o "-"
            \o PadN(date.day, 2) \o "T" \o ClockString(local % 86400, ts.nano)

\* Timestamp::to_string
TimestampToString(ts) == DateTimeString(ts, 0) \o "Z"

OffsetString(offset) ==
    LET a == IF offset < 0 THEN 0 - offset ELSE offset
    IN  (IF offset < 0 THEN "-" ELSE "+") \o PadN(a \div 3600, 2) \o ":"
            \o PadN((a \div 60) % 60, 2)

\* Timestamp::to_zoned(tz).to_string(), for a time zone of one fixed offset
ZonedToString(ts, tz) ==
    DateTimeString(ts, tz.offset) \o OffsetString(tz.offset)
        \o "[" \o tz.name \o "]"

\* Time::MIN.saturating_add(Span::new().milliseconds(ms)).to_string()
TimeOfMillis(ms) ==
    IF ms < 0 THEN Ok(ClockString(0, 0))
    ELSE IF ms >= 86400000 THEN Ok(ClockString(86399, 999999999))
    ELSE Ok(ClockString(ms \div 1000, (ms % 1000) * 1000000))

\* the largest number of microseconds of a Span
SpanMaxMicros == BigLit(FALSE, <<631, 107, 417, 600, 0, 0>>)

\* Time::MIN.saturating_add(Span::new().microseconds(us)).to_string();
\* Span::microseconds panics outside -SpanMaxMicros..SpanMaxMicros
TimeOfMicros(us) ==
    IF BigLess(us, BigNeg(SpanMaxMicros)) \/ BigLess(SpanMaxMicros, us)
    THEN Panic("span microseconds out of range")
    ELSE IF BigIsNeg(us) THEN Ok(ClockString(0, 0))
    ELSE IF BigLeq(BigFromInt(86400), BigShr(us, 2))
    THEN Ok(ClockString(86399, 999999999))
    ELSE Ok(ClockString(BigToInt(BigShr(us, 2)), BigLow(us, 2) * 1000))

\* Span::to_string() of a span of `days' days, `hours' hours, `minutes'
\* minutes and `ms' milliseconds (ISO 8601; jiff 0.1 writes the unit
\* designators in lower case).
SpanString(days, hours, minutes, ms, lower) ==
    LET D == IF lower THEN "d" ELSE "D"
        H == IF lower THEN "h" ELSE "H"
        M == IF lower THEN "m" ELSE "M"
        S == IF lower THEN "s" ELSE "S"
        secs == ToString(ms \div 1000) \o FractionString((ms % 1000) * 1000000) \o S
        time == (IF hours # 0 THEN ToString(hours) \o H ELSE "")
                    \o (IF minutes # 0 THEN ToString(minutes) \o M ELSE "")
                    \o (IF ms # 0 THEN secs ELSE "")
    IN  IF days = 0 /\ time = "" THEN "PT0" \o S
        ELSE "P" \o (IF days # 0 THEN ToString(days) \o D ELSE "")
                 \o (IF time # "" THEN "T" \o time ELSE "")

\* The largest numbers of months and of days of a Span.
SpanMaxMonths == 239976
SpanMaxDays == 7304484

\* Span::new().months(m).checked_add(Span::new().days(d))?
\*     .checked_add(Span::new().milliseconds(ms))?.to_string().
\* Span::months and Span::days panic beyond the span limits.  checked_add is
\* given no relative date: it fails when the larger unit of its two spans is
\* months, and, from jiff 0.2 on, days; jiff 0.1 takes days of 24 hours and
\* balances the sum up to days.
DurationToString(dur, jiff01) ==
    IF dur.months > SpanMaxMonths THEN Panic("span months out of range")
    ELSE IF dur.days > SpanMaxDays THEN Panic("span days out of range")
    ELSE IF dur.months # 0 \/ (dur.days # 0 /\ ~jiff01)
    THEN Err("span arithmetic needs a relative date")
    ELSE IF dur.days = 0
    THEN Ok(SpanString(0, 0, 0, dur.millis, jiff01))
    ELSE LET days == dur.days + (dur.millis \div 86400000)
             rest == dur.millis % 86400000
         IN  IF days > SpanMaxDays THEN Err("span overflow")
             ELSE Ok(SpanString(days, rest \div 3600000, (rest \div 60000) % 60,
                                rest % 60000, jiff01))

(***************************************************************************)
(* Text of the other leaves                                                *)
(***************************************************************************)
RECURSIVE Join(_, _)
\* strs.join(sep)
Join(strs, sep) ==
    IF Len(strs) = 0 THEN ""
    ELSE IF Len(strs) = 1 THEN strs[1]
    ELSE strs[1] \o sep \o Join(Tail(strs), sep)

\* b.iter().map(|n| format!("{}", n)).collect::<Vec<String>>().join(", ")
BytesToString(bytes) == Join([i \in 1..Len(bytes) |-> ToString(bytes[i])], ", ")

HexDigits == <<"0", "1", "2", "3", "4", "5", "6", "7",
               "8", "9", "a", "b", "c", "d", "e", "f">>

HexByte(b) == HexDigits[(b \div 16) + 1] \o HexDigits[(b % 16) + 1]

\* Uuid::to_string(): the 16 bytes in lower-case hexadecimal, hyphenated 8-4-4-4-12
UuidToString(bytes) ==
    Join([i \in 1..Len(bytes) |->
            (IF i \in {5, 7, 9, 11} THEN "-" ELSE "") \o HexByte(bytes[i])], "")

\* A float is NaN, an infinity or, in this model, a finite multiple of one
\* half, [cls |-> "fin", twice |-> 2 * value].  format!("{}", f):
FloatToString(f) ==
    CASE f.cls = "nan" -> "NaN"
      [] f.cls = "inf" -> "inf"
      [] f.cls = "ninf" -> "-inf"
      [] OTHER ->
            LET a == IF f.twice < 0 THEN 0 - f.twice ELSE f.twice
            IN  (IF f.twice < 0 THEN "-" ELSE "") \o ToString(a \div 2)
                    \o (IF a % 2 = 1 THEN ".5" ELSE "")

(***************************************************************************)
(* Decoded values (apache_avro::types::Value) are records tagged by kind:  *)
(*   Null; Boolean b; Int i; Long l (Big); Float f, Double f; String s;    *)
(*   Bytes bytes; Fixed size, bytes; Enum index, symbol;                   *)
(*   Union index, inner; Array items; Map entries (<<key, value>> in the   *)
(*   map's iteration order); Record fields (<<name, value>>);              *)
(*   Date days; TimeMillis ms; TimeMicros us (Big);                        *)
(*   TimestampMillis/Micros/Nanos and LocalTimestamp* count (Big);         *)
(*   Decimal unscaled (Big); BigDecimal unscaled (Big), scale;             *)
(*   Duration months, days, millis; Uuid bytes.                            *)
(* The environment env is the system time zone (TimeZone::try_system(),    *)
(* else UTC) and the jiff release linked.                                  *)
(***************************************************************************)
NULL == "null"
NA == "N/A"

\* a collect that passed over the conversions that failed, which C5 excludes
CollectOk(rs) ==
    LET ok == SelectSeq(rs, IsOk)
    IN  Ok([i \in 1..Len(ok) |-> ok[i].val])

\* iter.collect::<Result<Vec<_>>>(): the values, or the first failure met
Collect(rs) ==
    IF \A i \in 1..Len(rs) : IsOk(rs[i])
    THEN Ok([i \in 1..Len(rs) |-> rs[i].val])
    ELSE rs[CHOOSE i \in 1..Len(rs) :
                ~IsOk(rs[i]) /\ \A j \in 1..(i - 1) : IsOk(rs[j])]

\* r.map(f), with f applied to the value of an Ok
MapOk(r, f(_)) == IF IsOk(r) THEN Ok(f(r.val)) ELSE r

RECURSIVE format_avro_value(_, _)
RECURSIVE to_json(_, _)

\* Value::Array
FormatArray(v, env) ==
    LET strs == Collect([i \in 1..Len(v.items) |->
                            format_avro_value(v.items[i], env)])
        joined(xs) == Join(xs, ", ")
    IN  MapOk(strs, joined)

\* entries rendered "key=value", which C9 excludes
FormatEntriesEquals(entries, env) ==
    LET entry(i) ==
            LET keyed(str) == entries[i][1] \o "=" \o str
            IN  MapOk(format_avro_value(entries[i][2], env), keyed)
        strs == Collect([i \in 1..Len(entries) |-> entry(i)])
        joined(xs) == Join(xs, ", ")
    IN  MapOk(strs, joined)

\* Value::Map and Value::Record: "key: value" for each entry, in order
FormatEntries(entries, env) ==
    LET entry(i) ==
            LET keyed(str) == entries[i][1] \o ": " \o str
            IN  MapOk(format_avro_value(entries[i][2], env), keyed)
        strs == Collect([i \in 1..Len(entries) |-> entry(i)])
        joined(xs) == Join(xs, ", ")
    IN  MapOk(strs, joined)

\* an Enum rendered with its symbol twice, which the amended C6 excludes
FormatEnumSymbolTwice(v) == Ok(v.symbol \o " (" \o v.symbol \o ")")

\* Value::Enum(id, desc)
FormatEnum(v) == Ok(ToString(v.index) \o " (" \o v.symbol \o ")")

\* a Union that showed its branch rather than its value, which C1 excludes
FormatUnionBranch(v, env) == Ok(ToString(v.index))

\* Value::Union(_, value)
FormatUnion(v, env) == format_avro_value(v.inner, env)

\* from_second / from_millisecond / ... (count).into_diagnostic()?.to_string()
TimestampText(count, e) == MapOk(TimestampFrom(count, e), TimestampToString)

\* ... .to_zoned(TimeZone::try_system().unwrap_or(TimeZone::UTC)).to_string()
LocalTimestampText(count, e, env) ==
    LET zoned(ts) == ZonedToString(ts, env.tz)
    IN  MapOk(TimestampFrom(count, e), zoned)

\* Value::TimestampMillis, TimestampMicros and TimestampNanos: all three
\* are handed to Timestamp::from_millisecond
FormatTimestamp(v) == TimestampText(v.count, 1)

\* Value::LocalTimestampMillis, LocalTimestampMicros, LocalTimestampNanos
FormatLocalTimestamp(v, env) ==
    CASE v.kind = "LocalTimestampMillis" -> LocalTimestampText(v.count, 1, env)
      [] v.kind = "LocalTimestampMicros" -> LocalTimestampText(v.count, 2, env)
      [] v.kind = "LocalTimestampNanos"  -> LocalTimestampText(v.count, 3, env)

format_avro_value(v, env) ==
    CASE v.kind = "Array"      -> FormatArray(v, env)
      [] v.kind = "Bytes"      -> Ok(BytesToString(v.bytes))
      [] v.kind = "Boolean"    -> Ok(IF v.b THEN "true" ELSE "false")
      [] v.kind = "Double"     -> Ok(FloatToString(v.f))
      [] v.kind = "Enum"       -> FormatEnum(v)
      [] v.kind = "Fixed"      -> Ok(BytesToString(v.bytes))
      [] v.kind = "Float"      -> Ok(FloatToString(v.f))
      [] v.kind = "Int"        -> Ok(ToString(v.i))
      [] v.kind = "Long"       -> Ok(BigToString(v.l))
      [] v.kind = "Map"        -> FormatEntries(v.entries, env)
      [] v.kind = "Null"       -> Ok(NULL)
      [] v.kind = "Record"     -> FormatEntries(v.fields, env)
      [] v.kind = "String"     -> Ok(v.s)
      [] v.kind = "Date"       -> TimestampText(BigFromInt(v.days), 0)
      [] v.kind = "Decimal"    -> Ok(BigToString(v.unscaled))
      [] v.kind = "BigDecimal" -> Ok(BigToString(v.unscaled))
      [] v.kind = "TimeMillis" -> TimeOfMillis(v.ms)
      [] v.kind = "TimeMicros" -> TimeOfMicros(v.us)
      [] v.kind \in {"TimestampMillis", "TimestampMicros", "TimestampNanos"}
                               -> FormatTimestamp(v)
      [] v.kind \in {"LocalTimestampMillis", "LocalTimestampMicros",
                     "LocalTimestampNanos"}
                               -> FormatLocalTimestamp(v, env)
      [] v.kind = "Duration"   -> DurationToString(v, env.jiff01)
      [] v.kind = "Uuid"       -> Ok(UuidToString(v.bytes))
      [] v.kind = "Union"      -> FormatUnion(v, env)

(***************************************************************************)
(* JSON values (serde_json::Value): [t |-> "null"], [t |-> "bool", b],     *)
(* [t |-> "num", n] (an integer, a Big), [t |-> "float", f],               *)
(* [t |-> "str", s], [t |-> "arr", a] and [t |-> "obj", o], o a function   *)
(* from the keys to their values (serde_json::Map).                        *)
(***************************************************************************)
JNull == [t |-> "null"]
JBool(b) == [t |-> "bool", b |-> b]
JNum(n) == [t |-> "num", n |-> n]
JFloat(f) == [t |-> "float", f |-> f]
JStr(s) == [t |-> "str", s |-> s]
JArr(a) == [t |-> "arr", a |-> a]

\* The serde_json::Map collected from (key, value) pairs: a later pair
\* replaces an earlier one of the same key.
JObj(pairs) ==
    [t |-> "obj",
     o |-> [k \in {pairs[i][1] : i \in 1..Len(pairs)} |->
              pairs[CHOOSE i \in 1..Len(pairs) :
                        /\ pairs[i][1] = k
                        /\ \A j \in (i + 1)..Len(pairs) : pairs[j][1] # k][2]]]

\* Number::from_f64(f).unwrap_or(Number::from_f64(0.0).unwrap())
JsonFloat(f) == IF f.cls = "fin" THEN JFloat(f) ELSE JFloat([cls |-> "fin", twice |-> 0])

\* the bytes as numbers
JsonBytes(bytes) == JArr([i \in 1..Len(bytes) |-> JNum(BigFromInt(bytes[i]))])

\* Value::Array
JsonArray(v, env) ==
    MapOk(Collect([i \in 1..Len(v.items) |-> to_json(v.items[i], env)]), JArr)

\* Value::Map and Value::Record
JsonEntries(entries, env) ==
    LET entry(i) ==
            LET keyed(j) == <<entries[i][1], j>>
            IN  MapOk(to_json(entries[i][2], env), keyed)
    IN  MapOk(Collect([i \in 1..Len(entries) |-> entry(i)]), JObj)

\* Value::Enum(_id, desc)
JsonEnum(v) == Ok(JStr(v.symbol))

\* Value::Union(_, value)
JsonUnion(v, env) == to_json(v.inner, env)

\* a to_json that read each timestamp in its own unit while the rendering
\* does not, which C2 excludes
JsonTimestampByUnit(v) ==
    MapOk(TimestampText(v.count, CASE v.kind = "TimestampMillis" -> 1
                                   [] v.kind = "TimestampMicros" -> 2
                                   [] v.kind = "TimestampNanos"  -> 3), JStr)

\* Value::TimestampMillis, TimestampMicros and TimestampNanos: all three
\* are handed to Timestamp::from_millisecond
JsonTimestamp(v) == MapOk(TimestampText(v.count, 1), JStr)

\* Value::LocalTimestampMillis, LocalTimestampMicros, LocalTimestampNanos
JsonLocalTimestamp(v, env) ==
    CASE v.kind = "LocalTimestampMillis" ->
            MapOk(LocalTimestampText(v.count, 1, env), JStr)
      [] v.kind = "LocalTimestampMicros" ->
            MapOk(LocalTimestampText(v.count, 2, env), JStr)
      [] v.kind = "LocalTimestampNanos" ->
            MapOk(LocalTimestampText(v.count, 3, env), JStr)

to_json(v, env) ==
    CASE v.kind = "Array"      -> JsonArray(v, env)
      [] v.kind = "Map"        -> JsonEntries(v.entries, env)
      [] v.kind = "Record"     -> JsonEntries(v.fields, env)
      [] v.kind = "Union"      -> JsonUnion(v, env)
      [] v.kind = "Null"       -> Ok(JNull)
      [] v.kind = "Bytes"      -> Ok(JsonBytes(v.bytes))
      [] v.kind = "Boolean"    -> Ok(JBool(v.b))
      [] v.kind = "Double"     -> Ok(JsonFloat(v.f))
      [] v.kind = "Float"      -> Ok(JsonFloat(v.f))
      [] v.kind = "Enum"       -> JsonEnum(v)
      [] v.kind = "Fixed"      -> Ok(JsonBytes(v.bytes))
      [] v.kind = "Int"        -> Ok(JNum(BigFromInt(v.i)))
      [] v.kind = "Long"       -> Ok(JNum(v.l))
      [] v.kind = "String"     -> Ok(JStr(v.s))
      [] v.kind = "Uuid"       -> Ok(JStr(UuidToString(v.bytes)))
      [] v.kind = "Date"       -> MapOk(TimestampText(BigFromInt(v.days), 0), JStr)
      [] v.kind = "Decimal"    -> Ok(JStr(BigToString(v.unscaled)))
      [] v.kind = "BigDecimal" -> Ok(JStr(BigToString(v.unscaled)))
      [] v.kind = "TimeMillis" -> MapOk(TimeOfMillis(v.ms), JStr)
      [] v.kind = "TimeMicros" -> MapOk(TimeOfMicros(v.us), JStr)
      [] v.kind \in {"TimestampMillis", "TimestampMicros", "TimestampNanos"}
                               -> JsonTimestamp(v)
      [] v.kind \in {"LocalTimestampMillis", "LocalTimestampMicros",
                     "LocalTimestampNanos"}
                               -> JsonLocalTimestamp(v, env)
      [] v.kind = "Duration"   -> MapOk(DurationToString(v, env.jiff01), JStr)

(***************************************************************************)
(* AvroValue: a decoded value, or Na for a requested field the record does *)
(* not have.                                                               *)
(***************************************************************************)
AvroValueNa == [tag |-> "Na"]
AvroValueFrom(v) == [tag |-> "Value", v |-> v]

\* Display for AvroValue, as AvroValue::to_string calls it: format! panics
\* when the Display implementation returns fmt::Error.
AvroValue_to_string(av, env) ==
    IF av.tag = "Na" THEN Ok(NA)
    ELSE LET r == format_avro_value(av.v, env)
         IN  IF r.tag = "Err"
             THEN Panic("a formatting trait implementation returned an error")
             ELSE r

\* a to_json that gave a missing field its rendered text, which C4 excludes
AvroValueToJsonNaText(av, env) ==
    IF av.tag = "Na" THEN Ok(JStr(NA)) ELSE to_json(av.v, env)

\* AvroValue::to_json
AvroValue_to_json(av, env) ==
    IF av.tag = "Na" THEN Ok(JNull) ELSE to_json(av.v, env)

(***************************************************************************)
(* The program state.                                                      *)
(*   env               the process environment (time zone, jiff release)   *)
(*   value, rendered,  one AvroValue and the results of its to_string()    *)
(*   json              and to_json() (None before the call)                *)
(*   files             CliService.files: each file is the sequence of rows *)
(*                     its Reader yields, Ok(value) or Err(..)             *)
(*   fields_to_get,    the arguments of main                               *)
(*   take                                                                  *)
(*   pc                where main is                                       *)
(*   file_idx, row_idx the loops of get_fields (1-based)                   *)
(*   extracted_fields  the rows get_fields has built                       *)
(*   call              the printer main called, with its arguments         *)
(*   stdout            what has been written to the standard output        *)
(*   result            how main ended (None while it runs)                 *)
(***************************************************************************)
VARIABLES env, value, rendered, json, files, fields_to_get, take, pc,
          file_idx, row_idx, extracted_fields, call, stdout, result

vars == <<env, value, rendered, json, files, fields_to_get, take, pc,
          file_idx, row_idx, extracted_fields, call, stdout, result>>

convVars == <<value, rendered, json>>
cliVars == <<files, fields_to_get, take, file_idx, row_idx, extracted_fields,
             call, stdout, result>>

None == [tag |-> "None"]
Some(x) == [tag |-> "Some", x |-> x]

\* sequences over S of length at most n
SeqsUpTo(S, n) == UNION {[1..k -> S] : k \in 0..n}

(***************************************************************************)
(* cli.rs                                                                  *)
(***************************************************************************)
\* AvroColumnarValue::from
AvroColumnarValue(name, v) == [name |-> name, value |-> v]

\* a projection that kept the record's own fields, in schema order, which C3
\* excludes
ExtractRowAllFields(fields, names) ==
    [j \in 1..Len(fields) |->
        AvroColumnarValue(fields[j][1], AvroValueFrom(fields[j][2]))]

\* get_fields, the body of `if let Value::Record(fields) = row': one
\* AvroColumnarValue for each requested name, from the first field of that
\* name, or Na
ExtractRow(fields, names) ==
    [i \in 1..Len(names) |->
        LET found == {j \in 1..Len(fields) : fields[j][1] = names[i]}
        IN  IF found = {}
            THEN AvroColumnarValue(names[i], AvroValueNa)
            ELSE LET j == CHOOSE j \in found : \A k \in found : j <= k
                 IN  AvroColumnarValue(fields[j][1], AvroValueFrom(fields[j][2]))]

\* a row cap that let one more row through, which C11 excludes
TakeReachedLate(n) == take.tag = "Some" /\ n > take.x

\* take.unwrap_or(u32::max_value()) is reached
TakeReached(n) == take.tag = "Some" /\ n >= take.x

\* main calls get_all_field_names when no field is asked for: the field
\* names of the first row of the first file, nothing when that row is not a
\* record, an error when there is no row.
MainAllFieldNames ==
    /\ pc = "main"
    /\ fields_to_get = <<>>
    /\ IF Len(files[1]) = 0
       THEN /\ result' = Err("Avro must have at least one record row to infer schema")
            /\ pc' = "done"
            /\ UNCHANGED fields_to_get
       ELSE LET row == files[1][1]
            IN  /\ fields_to_get' =
                      IF IsOk(row) /\ row.val.kind = "Record"
                      THEN [i \in 1..Len(row.val.fields) |-> row.val.fields[i][1]]
                      ELSE <<>>
                /\ pc' = "get_fields"
                /\ UNCHANGED result
    /\ UNCHANGED <<env, convVars, files, take, file_idx, row_idx,
                   extracted_fields, call, stdout>>

MainFieldsGiven ==
    /\ pc = "main"
    /\ fields_to_get # <<>>
    /\ pc' = "get_fields"
    /\ UNCHANGED <<env, convVars, cliVars>>

InFile == pc = "get_fields" /\ file_idx <= Len(files)
AtRow == InFile /\ row_idx <= Len(files[file_idx])

\* `break': the row cap is reached, on to the next file
GetFieldsBreak ==
    /\ AtRow
    /\ TakeReached(Len(extracted_fields))
    /\ file_idx' = file_idx + 1
    /\ row_idx' = 1
    /\ UNCHANGED <<env, convVars, files, fields_to_get, take, pc,
                   extracted_fields, call, stdout, result>>

\* row.into_diagnostic().wrap_err_with(..)? on a row that did not parse
GetFieldsRowError ==
    /\ AtRow
    /\ ~TakeReached(Len(extracted_fields))
    /\ ~IsOk(files[file_idx][row_idx])
    /\ result' = Err("Could not parse row from the Avro")
    /\ pc' = "done"
    /\ UNCHANGED <<env, convVars, files, fields_to_get, take, file_idx,
                   row_idx, extracted_fields, call, stdout>>

\* a record row: its requested fields are pushed
GetFieldsRecord ==
    /\ AtRow
    /\ ~TakeReached(Len(extracted_fields))
    /\ IsOk(files[file_idx][row_idx])
    /\ files[file_idx][row_idx].val.kind = "Record"
    /\ extracted_fields' =
          Append(extracted_fields,
                 ExtractRow(files[file_idx][row_idx].val.fields, fields_to_get))
    /\ row_idx' = row_idx + 1
    /\ UNCHANGED <<env, convVars, files, fields_to_get, take, pc, file_idx,
                   call, stdout, result>>

\* a row that is no record is passed over
GetFieldsSkip ==
    /\ AtRow
    /\ ~TakeReached(Len(extracted_fields))
    /\ IsOk(files[file_idx][row_idx])
    /\ files[file_idx][row_idx].val.kind # "Record"
    /\ row_idx' = row_idx + 1
    /\ UNCHANGED <<env, convVars, files, fields_to_get, take, pc, file_idx,
                   extracted_fields, call, stdout, result>>

\* the reader is exhausted: on to the next file
GetFieldsEndOfFile ==
    /\ InFile
    /\ row_idx > Len(files[file_idx])
    /\ file_idx' = file_idx + 1
    /\ row_idx' = 1
    /\ UNCHANGED <<env, convVars, files, fields_to_get, take, pc,
                   extracted_fields, call, stdout, result>>

\* Ok(extracted_fields)
GetFieldsReturn ==
    /\ pc = "get_fields"
    /\ file_idx > Len(files)
    /\ pc' = "print"
    /\ UNCHANGED <<env, convVars, cliVars>>

(***************************************************************************)
(* main.rs: the printers.  main prints the rows get_fields returned in the *)
(* format asked for; the format and the search are its arguments.          *)
(***************************************************************************)
\* A compiled Regex is the set of strings it has a match in ([valid |->
\* TRUE, matches |-> S]); a pattern Regex::new rejects is [valid |-> FALSE].
RegexIsMatch(re, str) == str \in re.matches

\* v.value().to_string() of every cell of every row
CellStrings(data) ==
    [i \in 1..Len(data) |->
        [k \in 1..Len(data[i]) |-> AvroValue_to_string(data[i][k].value, env)]]

\* a filter that asked every cell of the row to match, which C7 excludes
RowMatchesAll(strs, search) ==
    IF search.tag = "None" THEN Ok(Len(strs) > 0)
    ELSE IF \E i \in 1..Len(strs) : ~IsOk(strs[i])
         THEN strs[CHOOSE i \in 1..Len(strs) : ~IsOk(strs[i])]
         ELSE Ok(Len(strs) > 0 /\ \A i \in 1..Len(strs) :
                                     strs[i].val \in search.x.matches)

\* the closure of `filter', on the to_string() results strs of one row's
\* cells: whether the row has a cell the search finds (`find' stops at the
\* first one), any cell when there is no search
RowMatches(strs, search) ==
    IF search.tag = "None" THEN Ok(Len(strs) > 0)
    ELSE LET hit(i) == IsOk(strs[i]) /\ RegexIsMatch(search.x, strs[i].val)
             bad == {i \in 1..Len(strs) :
                        ~IsOk(strs[i]) /\ \A j \in 1..(i - 1) : ~hit(j)}
         IN  IF bad # {}
             THEN strs[CHOOSE i \in bad : \A k \in bad : i <= k]
             ELSE Ok(\E i \in 1..Len(strs) : hit(i))

\* the Cell of one value: bold green when the search matches, red for Na
TableCell(str, av, search) ==
    [text  |-> str,
     style |-> (IF search.tag = "Some" /\ RegexIsMatch(search.x, str)
                THEN <<"Bold", "Green">> ELSE <<>>)
               \o (IF av.tag = "Na" THEN <<"Red">> ELSE <<>>)]

\* the cells of one row
TableRow(strs, row, search) ==
    LET cells(xs) == [i \in 1..Len(row) |-> TableCell(xs[i], row[i].value, search)]
    IN  MapOk(Collect(strs), cells)

HeaderCells(field_names) ==
    [i \in 1..Len(field_names) |->
        [text |-> field_names[i], style |-> <<"Bold", "Blue", "Underline">>]]

\* the subsequence of 1..n of the indices in `keep'
RECURSIVE IndicesIn(_, _)
IndicesIn(n, keep) ==
    IF n = 0 THEN <<>>
    ELSE IndicesIn(n - 1, keep) \o (IF n \in keep THEN <<n>> ELSE <<>>)

\* print_as_table(field_names, data, search), strs being the to_string()
\* results of the cells of data: how it ends and what it prints.  The rows
\* are filtered, then their cells are built, then the table is printed.
TablePrinted(field_names, data, strs, search) ==
    IF search.tag = "Some" /\ ~search.x.valid
    THEN [result |-> Err("regex parse error"), out |-> <<>>]
    ELSE LET kept == Collect([i \in 1..Len(data) |-> RowMatches(strs[i], search)])
         IN  IF ~IsOk(kept) THEN [result |-> kept, out |-> <<>>]
             ELSE LET filtered == IndicesIn(Len(data),
                                            {i \in 1..Len(data) : kept.val[i]})
                      rows == Collect([n \in 1..Len(filtered) |->
                                  TableRow(strs[filtered[n]], data[filtered[n]],
                                           search)])
                  IN  IF ~IsOk(rows) THEN [result |-> rows, out |-> <<>>]
                      ELSE [result |-> Ok("()"),
                            out |-> <<[w      |-> "table",
                                       header |-> HeaderCells(field_names),
                                       rows   |-> rows.val]>>]

print_as_table(search) ==
    /\ pc = "print"
    /\ pc' = "done"
    /\ call' = [fn |-> "print_as_table", search |-> search]
    /\ \E printed \in {TablePrinted(fields_to_get, extracted_fields,
                                    CellStrings(extracted_fields), search)} :
          /\ result' = printed.result
          /\ stdout' = stdout \o printed.out
    /\ UNCHANGED <<env, convVars, files, fields_to_get, take, file_idx,
                   row_idx, extracted_fields>>

\* the values of the rows before the first one that fails, and that failure
RowsUntilFailure(rs) ==
    LET bad == {i \in 1..Len(rs) : ~IsOk(rs[i])}
        n   == IF bad = {} THEN Len(rs)
               ELSE (CHOOSE i \in bad : \A k \in bad : i <= k) - 1
    IN  [done    |-> [i \in 1..n |-> rs[i].val],
         failure |-> IF bad = {} THEN None ELSE Some(rs[n + 1])]

\* print_as_csv(field_names, data), strs being the to_string() results of
\* the cells of data: the header, then one record a row.  When a cell
\* panics the writer is dropped, which flushes the records written so far.
CsvPrinted(field_names, strs) ==
    LET rows == RowsUntilFailure([i \in 1..Len(strs) |-> Collect(strs[i])])
    IN  [result |-> IF rows.failure.tag = "None" THEN Ok("()") ELSE rows.failure.x,
         out    |-> <<[w |-> "csv", cells |-> field_names]>>
                        \o [i \in 1..Len(rows.done) |->
                               [w |-> "csv", cells |-> rows.done[i]]]]

print_as_csv ==
    /\ pc = "print"
    /\ pc' = "done"
    /\ call' = [fn |-> "print_as_csv"]
    /\ \E printed \in {CsvPrinted(fields_to_get, CellStrings(extracted_fields))} :
          /\ result' = printed.result
          /\ stdout' = stdout \o printed.out
    /\ UNCHANGED <<env, convVars, files, fields_to_get, take, file_idx,
                   row_idx, extracted_fields>>

RECURSIVE PrettyBreaks(_)
RECURSIVE PrettyBreaksOver(_, _)
\* the line breaks serde_json's PrettyFormatter puts inside a value: none
\* in a scalar or an empty array or object, else one after the opening
\* bracket, one after each element but the last, one before the closing one
PrettyBreaks(j) ==
    CASE j.t = "arr" ->
            IF Len(j.a) = 0 THEN 0
            ELSE Len(j.a) + 1
                    + PrettyBreaksOver(1..Len(j.a), j.a)
      [] j.t = "obj" ->
            IF DOMAIN j.o = {} THEN 0
            ELSE Cardinality(DOMAIN j.o) + 1
                    + PrettyBreaksOver(DOMAIN j.o, j.o)
      [] OTHER -> 0

PrettyBreaksOver(keys, f) ==
    IF keys = {} THEN 0
    ELSE LET k == CHOOSE k \in keys : TRUE
         IN  PrettyBreaks(f[k]) + PrettyBreaksOver(keys \ {k}, f)

\* a row object that left the missing fields out, which the amended C8
\* excludes
JsonRowPresent(row, field_filter) ==
    LET present(val) == val.value.tag = "Value"
        cells == SelectSeq(row, present)
        pair(i) ==
            LET keyed(j) == <<cells[i].name, j>>
            IN  MapOk(AvroValue_to_json(cells[i].value, env), keyed)
    IN  MapOk(Collect([i \in 1..Len(cells) |-> pair(i)]), JObj)

\* the object of one row: the cells whose name is in field_filter, by name
JsonRow(row, field_filter) ==
    LET named(val) == \E i \in 1..Len(field_filter) : val.name = field_filter[i]
        cells == SelectSeq(row, named)
        pair(i) ==
            LET keyed(j) == <<cells[i].name, j>>
            IN  MapOk(AvroValue_to_json(cells[i].value, env), keyed)
    IN  MapOk(Collect([i \in 1..Len(cells) |-> pair(i)]), JObj)

\* print_as_json(field_filter, data, pretty), objs being the objects of
\* the rows: each row's object is written and followed by a line feed; the
\* first failure ends the printing.
JsonPrinted(objs, pretty) ==
    LET rows == RowsUntilFailure(objs)
    IN  [result |-> IF rows.failure.tag = "None" THEN Ok("()") ELSE rows.failure.x,
         out    |-> [i \in 1..Len(rows.done) |->
                        [w      |-> "json",
                         doc    |-> rows.done[i],
                         breaks |-> IF pretty THEN PrettyBreaks(rows.done[i])
                                              ELSE 0]]]

print_as_json(pretty) ==
    /\ pc = "print"
    /\ pc' = "done"
    /\ call' = [fn |-> "print_as_json", pretty |-> pretty]
    /\ \E printed \in {JsonPrinted([i \in 1..Len(extracted_fields) |->
                                       JsonRow(extracted_fields[i], fields_to_get)],
                                   pretty)} :
          /\ result' = printed.result
          /\ stdout' = stdout \o printed.out
    /\ UNCHANGED <<env, convVars, files, fields_to_get, take, file_idx,
                   row_idx, extracted_fields>>

\* any other --format
MainUnknownFormat ==
    /\ pc = "print"
    /\ pc' = "done"
    /\ result' = Err("Output format not recognized")
    /\ call' = [fn |-> "bail"]
    /\ UNCHANGED <<env, convVars, files, fields_to_get, take, file_idx,
                   row_idx, extracted_fields, stdout>>

(***************************************************************************)
(* The conversion of one value                                             *)
(***************************************************************************)
\* value.to_string()
Render ==
    /\ pc = "convert"
    /\ rendered = None
    /\ rendered' = AvroValue_to_string(value, env)
    /\ UNCHANGED <<env, value, json, pc, cliVars>>

\* value.to_json()
ToJson ==
    /\ pc = "convert"
    /\ json = None
    /\ json' = AvroValue_to_json(value, env)
    /\ UNCHANGED <<env, value, rendered, pc, cliVars>>

(***************************************************************************)
(* The values the model draws its inputs from                              *)
(***************************************************************************)
\* the longest array, map or record, and the largest union branch index
MaxLen == 2
MaxBranch == 1

VNull == [kind |-> "Null"]
VBoolean(b) == [kind |-> "Boolean", b |-> b]
VInt(i) == [kind |-> "Int", i |-> i]
VLong(l) == [kind |-> "Long", l |-> l]
VFloat(f) == [kind |-> "Float", f |-> f]
VDouble(f) == [kind |-> "Double", f |-> f]
VString(str) == [kind |-> "String", s |-> str]
VBytes(bytes) == [kind |-> "Bytes", bytes |-> bytes]
VFixed(bytes) == [kind |-> "Fixed", size |-> Len(bytes), bytes |-> bytes]
VEnum(index, symbol) == [kind |-> "Enum", index |-> index, symbol |-> symbol]
VUnion(index, inner) == [kind |-> "Union", index |-> index, inner |-> inner]
VArray(items) == [kind |-> "Array", items |-> items]
VMap(entries) == [kind |-> "Map", entries |-> entries]
VRecord(fields) == [kind |-> "Record", fields |-> fields]
VTimestamp(kind, count) == [kind |-> kind, count |-> count]
VDuration(months, days, millis) ==
    [kind |-> "Duration", months |-> months, days |-> days, millis |-> millis]

I64Max == BigLit(FALSE, <<9, 223, 372, 36, 854, 775, 807>>)
I64Min == BigLit(TRUE, <<9, 223, 372, 36, 854, 775, 808>>)
\* the last millisecond and microsecond of Timestamp::MAX, and the first
\* millisecond of Timestamp::MIN
MaxMillis == BigLit(FALSE, <<253, 402, 207, 200, 999>>)
MaxMicros == BigLit(FALSE, <<253, 402, 207, 200, 999, 999>>)
MinMillis == BigLit(TRUE, <<377, 705, 23, 201, 0>>)

TimestampCounts ==
    {BigFromInt(0), BigFromInt(1), BigFromInt(-1), BigFromInt(1000),
     BigFromInt(1500), BigFromInt(1000000), BigFromInt(-1000),
     BigLit(FALSE, <<1, 718, 810, 565, 120>>),
     MaxMillis, BigLit(FALSE, <<253, 402, 207, 201, 0>>),
     MinMillis, BigLit(TRUE, <<377, 705, 23, 201, 1>>),
     MaxMicros, BigLit(FALSE, <<253, 402, 207, 201, 0, 0>>),
     I64Max, I64Min}

TimestampKinds == {"TimestampMillis", "TimestampMicros", "TimestampNanos"}
LocalTimestampKinds ==
    {"LocalTimestampMillis", "LocalTimestampMicros", "LocalTimestampNanos"}

Floats == {[cls |-> "fin", twice |-> 0], [cls |-> "fin", twice |-> 84],
           [cls |-> "fin", twice |-> -3], [cls |-> "nan", twice |-> 0],
           [cls |-> "inf", twice |-> 0], [cls |-> "ninf", twice |-> 0]}

Uuids == {<<0, 0, 0, 0, 0, 0, 0, 0, 0, 0, 0, 0, 0, 0, 0, 1>>,
          <<18, 52, 86, 120, 154, 188, 222, 240, 0, 0, 0, 0, 0, 0, 255, 171>>}

\* a timestamp past Timestamp::MAX
BadTimestamp == VTimestamp("TimestampMillis", BigLit(FALSE, <<253, 402, 207, 201, 0>>))

Leaves ==
    {VNull, VBoolean(TRUE), VBoolean(FALSE)}
    \cup {VInt(i) : i \in {-3, 0, 17, 2147483647}}
    \cup {VLong(l) : l \in {BigFromInt(42), I64Max, I64Min}}
    \cup {VFloat(f) : f \in Floats} \cup {VDouble(f) : f \in Floats}
    \cup {VString(str) : str \in {"", "Marty", "null", "N/A"}}
    \cup {VBytes(b) : b \in {<<>>, <<12, 0, 255>>}}
    \cup {VFixed(b) : b \in {<<>>, <<12, 0, 255>>}}
    \cup {VEnum(i, sym) : i \in {0, 2}, sym \in {"SPADES", "2"}}
    \cup {[kind |-> "Date", days |-> d] : d \in {0, -1, 19893, 2147483647, -2147483647}}
    \cup {[kind |-> "TimeMillis", ms |-> ms] :
            ms \in {0, 3723004, 86399999, 86400000, -1}}
    \cup {[kind |-> "TimeMicros", us |-> us] :
            us \in {BigFromInt(0), BigLit(FALSE, <<86, 399, 999, 999>>),
                    BigLit(FALSE, <<86, 400, 0, 0>>), BigFromInt(-1), I64Max}}
    \cup {VTimestamp(k, c) : k \in TimestampKinds \cup LocalTimestampKinds,
                             c \in TimestampCounts}
    \cup {[kind |-> "Decimal", unscaled |-> u] :
            u \in {BigFromInt(123), BigFromInt(-5), I64Max}}
    \cup {[kind |-> "BigDecimal", unscaled |-> u, scale |-> sc] :
            u \in {BigFromInt(123), BigFromInt(0)}, sc \in {0, 2}}
    \cup {VDuration(m, d, ms) : m \in {0, 1, 239977}, d \in {0, 3},
                                ms \in {0, 1500, 90061001}}
    \cup {[kind |-> "Uuid", bytes |-> b] : b \in Uuids}

\* the values nested in containers
Elems == {VNull, VInt(17), VString("Marty"), VEnum(2, "SPADES"), BadTimestamp}

MapKeys == {"a", "b"}
FieldNames == {"firstName", "age"}

\* the entry lists over keys K and values S: no key twice
EntriesOver(K, S) ==
    {e \in SeqsUpTo(K \X S, MaxLen) :
        \A i, j \in 1..Len(e) : i # j => e[i][1] # e[j][1]}

\* the unions, arrays, maps and records over S
Wrap(S) ==
    {VUnion(i, v) : i \in 0..MaxBranch, v \in S}
    \cup {VArray(a) : a \in SeqsUpTo(S, MaxLen)}
    \cup {VMap(e) : e \in EntriesOver(MapKeys, S)}
    \cup {VRecord(e) : e \in EntriesOver(FieldNames, S)}

\* containers and unions, nested once more in Level2
Nested ==
    {VUnion(1, VString("Marty")), VUnion(0, BadTimestamp), VArray(<<>>),
     VArray(<<VInt(17)>>), VArray(<<BadTimestamp>>), VMap(<<>>),
     VRecord(<< <<"age", VInt(17)>> >>)}

Level1 == Wrap(Elems)
Level2 == Wrap(Elems \cup Nested)

Values == Leaves \cup Level1 \cup Level2

UTC == [name |-> "UTC", offset |-> 0]
Environments ==
    {[tz |-> UTC, jiff01 |-> FALSE],
     [tz |-> [name |-> "Etc/GMT-2", offset |-> 7200], jiff01 |-> TRUE],
     [tz |-> [name |-> "Etc/GMT+5", offset |-> -18000], jiff01 |-> FALSE]}

\* the rows of the files: records, a row that is no record, a row the
\* reader fails to decode
RecMarty == VRecord(<< <<"firstName", VString("Marty")>>, <<"age", VInt(17)>> >>)
RecJennifer ==
    VRecord(<< <<"firstName", VString("Jennifer")>>, <<"age", VUnion(0, VNull)>> >>)
RecEmmett ==
    VRecord(<< <<"firstName", VString("Emmett")>>, <<"born", BadTimestamp>> >>)
Rows == {Ok(RecMarty), Ok(RecJennifer), Ok(RecEmmett), Ok(VLong(BigFromInt(7))),
         Err("decode")}
PlainRows == {Ok(RecMarty), Ok(RecJennifer), Ok(VLong(BigFromInt(7)))}
RequestNames == {"firstName", "age", "born", "zip"}

\* the most rows of a file, requested fields and rows to take
MaxRows == 2
MaxFields == 2
MaxTake == 2

\* the searches main may be given for the rows it extracted: none, a
\* pattern that is no regex, a regex that matches up to two of the cell texts
OkTexts(strs) ==
    {r.val : r \in {r \in UNION {{strs[i][k] : k \in 1..Len(strs[i])} :
                                      i \in 1..Len(strs)} : IsOk(r)}}
CellTexts == {"N/A"} \cup OkTexts(CellStrings(extracted_fields))
Searches ==
    {None, Some([valid |-> FALSE, matches |-> {}])}
    \cup {Some([valid |-> TRUE, matches |-> m]) :
            m \in {m \in SUBSET CellTexts : Cardinality(m) <= 2}}

(***************************************************************************)
(* The program: main on the files of a CliService                          *)
(***************************************************************************)
Idle == /\ value = AvroValueNa
        /\ rendered = None
        /\ json = None

Init ==
    /\ env \in Environments
    /\ Idle
    /\ \/ /\ files \in {<<f>> : f \in SeqsUpTo(Rows, MaxRows)}
          /\ fields_to_get \in SeqsUpTo(RequestNames, MaxFields)
          /\ take = None
       \/ /\ files \in {<<f, g>> : f \in SeqsUpTo(PlainRows, MaxRows),
                                   g \in SeqsUpTo(PlainRows, MaxRows)}
          /\ fields_to_get = <<"firstName">>
          /\ take \in {None} \cup {Some(n) : n \in 0..MaxTake}
    /\ pc = "main"
    /\ file_idx = 1
    /\ row_idx = 1
    /\ extracted_fields = <<>>
    /\ call = None
    /\ stdout = <<>>
    /\ result = None

Next ==
    \/ MainAllFieldNames
    \/ MainFieldsGiven
    \/ GetFieldsBreak
    \/ GetFieldsRowError
    \/ GetFieldsRecord
    \/ GetFieldsSkip
    \/ GetFieldsEndOfFile
    \/ GetFieldsReturn
    \/ \E search \in Searches : print_as_table(search)
    \/ print_as_csv
    \/ \E pretty \in BOOLEAN : print_as_json(pretty)
    \/ MainUnknownFormat

Spec == Init /\ [][Next]_vars

(***************************************************************************)
(* The converter alone: one value, rendered and turned into JSON           *)
(***************************************************************************)
ConvInit ==
    /\ env \in Environments
    /\ value \in {AvroValueNa} \cup {AvroValueFrom(v) : v \in Values}
    /\ rendered = None
    /\ json = None
    /\ files = <<>>
    /\ fields_to_get = <<>>
    /\ take = None
    /\ pc = "convert"
    /\ file_idx = 1
    /\ row_idx = 1
    /\ extracted_fields = <<>>
    /\ call = None
    /\ stdout = <<>>
    /\ result = None

ConvNext == Render \/ ToJson

ConvSpec == ConvInit /\ [][ConvNext]_vars

(***************************************************************************)
(* Properties of the converter (checked under ConvSpec)                    *)
(***************************************************************************)
Converted == value.tag = "Value" /\ rendered # None /\ json # None

\* the value with every Union replaced by the value it wraps
RECURSIVE StripUnions(_)
StripUnions(v) ==
    CASE v.kind = "Union"  -> StripUnions(v.inner)
      [] v.kind = "Array"  ->
            VArray([i \in 1..Len(v.items) |-> StripUnions(v.items[i])])
      [] v.kind = "Map"    ->
            VMap([i \in 1..Len(v.entries) |->
                    <<v.entries[i][1], StripUnions(v.entries[i][2])>>])
      [] v.kind = "Record" ->
            VRecord([i \in 1..Len(v.fields) |->
                       <<v.fields[i][1], StripUnions(v.fields[i][2])>>])
      [] OTHER -> v

\* C1: a Union is transparent: the rendering and the JSON of a value, failures
\* included, are those of the value with its Unions replaced by what they
\* wrap, whatever the branch index and wherever the Union is nested.
C1_UnionTransparent ==
    value.tag = "Value" =>
        /\ rendered # None =>
              rendered = AvroValue_to_string(AvroValueFrom(StripUnions(value.v)), env)
        /\ json # None =>
              json = AvroValue_to_json(AvroValueFrom(StripUnions(value.v)), env)

\* an array holding a Union has been rendered and turned into JSON
C1_Witness ==
    /\ Converted
    /\ value.v.kind = "Array"
    /\ \E i \in 1..Len(value.v.items) :
          value.v.items[i].kind = "Union" /\ value.v.items[i].index = 1
    /\ IsOk(rendered)
    /\ IsOk(json)

TextLeafKinds ==
    {"Date", "TimeMillis", "TimeMicros", "Decimal", "BigDecimal", "Duration",
     "Uuid"} \cup TimestampKinds \cup LocalTimestampKinds

\* C2: on the leaves encoded as text, to_json gives the JSON string of the
\* rendering, and fails exactly when the rendering fails.
C2_TextLeavesLockstep ==
    (Converted /\ value.v.kind \in TextLeafKinds) =>
        /\ IsOk(json) <=> IsOk(rendered)
        /\ IsOk(json) => json.val = JStr(rendered.val)

\* a TimestampMicros has been rendered and turned into JSON
C2_Witness ==
    /\ Converted
    /\ value.v.kind = "TimestampMicros"
    /\ IsOk(rendered)
    /\ json = Ok(JStr(rendered.val))

\* C4: a missing field renders as "N/A" and a decoded null as "null", both
\* are the JSON null, and neither conversion fails.
C4_NaAndNull ==
    /\ (value = AvroValueNa /\ rendered # None) => rendered = Ok("N/A")
    /\ (value = AvroValueNa /\ json # None) => json = Ok(JNull)
    /\ (value = AvroValueFrom(VNull) /\ rendered # None) => rendered = Ok("null")
    /\ (value = AvroValueFrom(VNull) /\ json # None) => json = Ok(JNull)

\* a missing field has been rendered and turned into JSON
C4_Witness ==
    /\ value.tag = "Na"
    /\ rendered # None
    /\ json # None

\* the unit a timestamp's count is in, as a power of 1000 of a second
UnitOf(kind) ==
    CASE kind \in {"TimestampMillis", "LocalTimestampMillis"} -> 1
      [] kind \in {"TimestampMicros", "LocalTimestampMicros"} -> 2
      [] kind \in {"TimestampNanos", "LocalTimestampNanos"}   -> 3

\* whether the value holds a timestamp whose count is no instant jiff has
RECURSIVE HasBadTimestamp(_)
HasBadTimestamp(v) ==
    CASE v.kind = "Union"  -> HasBadTimestamp(v.inner)
      [] v.kind = "Array"  ->
            \E i \in 1..Len(v.items) : HasBadTimestamp(v.items[i])
      [] v.kind = "Map"    ->
            \E i \in 1..Len(v.entries) : HasBadTimestamp(v.entries[i][2])
      [] v.kind = "Record" ->
            \E i \in 1..Len(v.fields) : HasBadTimestamp(v.fields[i][2])
      [] v.kind \in TimestampKinds \cup LocalTimestampKinds ->
            ~IsOk(TimestampFrom(v.count, UnitOf(v.kind)))
      [] OTHER -> FALSE

\* C5: a value that holds, at any depth, a timestamp out of the range of
\* instants neither renders nor turns into JSON: both conversions fail.
C5_FailurePropagates ==
    (value.tag = "Value" /\ HasBadTimestamp(value.v)) =>
        /\ rendered # None => rendered.tag = "Panic"
        /\ json # None => json.tag = "Err"

\* a record whose second field holds, in an array, a timestamp out of range
\* has been converted both ways
C5_Witness ==
    /\ Converted
    /\ value.v.kind = "Record"
    /\ Len(value.v.fields) = 2
    /\ value.v.fields[2][2].kind = "Array"
    /\ HasBadTimestamp(value.v.fields[2][2])
    /\ ~HasBadTimestamp(value.v.fields[1][2])

\* C6 as the specification words it: an Enum renders as its symbol twice,
\* "<symbol> (<symbol>)", and its JSON is the symbol.
C6_SymbolTwice ==
    (Converted /\ value.v.kind = "Enum") =>
        /\ rendered = Ok(value.v.symbol \o " (" \o value.v.symbol \o ")")
        /\ json = Ok(JStr(value.v.symbol))

\* C6, amended: an Enum renders as "<index> (<symbol>)" and its JSON is the
\* string of the symbol alone.
C6_IndexAndSymbol ==
    (value.tag = "Value" /\ value.v.kind = "Enum") =>
        /\ rendered # None =>
              rendered = Ok(ToString(value.v.index) \o " (" \o value.v.symbol \o ")")
        /\ json # None => json = Ok(JStr(value.v.symbol))

\* the Enum of index 2 and symbol SPADES has been converted both ways
C6_Witness ==
    /\ Converted
    /\ value.v = VEnum(2, "SPADES")
    /\ rendered = Ok("2 (SPADES)")
    /\ json = Ok(JStr("SPADES"))

\* the strings with ", " between them
RECURSIVE CommaJoined(_)
CommaJoined(strs) ==
    IF Len(strs) = 0 THEN ""
    ELSE IF Len(strs) = 1 THEN strs[1]
    ELSE strs[1] \o ", " \o CommaJoined(Tail(strs))

\* the entries of a Map or Record value, and nothing for another value
EntriesOf(v) ==
    CASE v.kind = "Map" -> v.entries
      [] v.kind = "Record" -> v.fields
      [] OTHER -> <<>>

\* C9: an Array renders as the renderings of its elements joined by ", ", a
\* Map or Record as "key: " and the rendering of the value for each entry,
\* joined by ", "; their JSON is the array of the elements' JSON, the object
\* of the entries' JSON under the same keys.  An empty one renders as "" and
\* is [] or {}.
C9_Containers ==
    /\ (Converted /\ value.v.kind = "Array") =>
          LET strs == [i \in 1..Len(value.v.items) |->
                          AvroValue_to_string(AvroValueFrom(value.v.items[i]), env)]
              docs == [i \in 1..Len(value.v.items) |->
                          AvroValue_to_json(AvroValueFrom(value.v.items[i]), env)]
          IN  /\ (\A i \in DOMAIN strs : IsOk(strs[i])) =>
                    rendered = Ok(CommaJoined([i \in DOMAIN strs |-> strs[i].val]))
              /\ (\A i \in DOMAIN docs : IsOk(docs[i])) =>
                    json = Ok(JArr([i \in DOMAIN docs |-> docs[i].val]))
              /\ Len(value.v.items) = 0 => rendered = Ok("") /\ json = Ok(JArr(<<>>))
    /\ (Converted /\ value.v.kind \in {"Map", "Record"}) =>
          LET entries == EntriesOf(value.v)
              strs == [i \in 1..Len(entries) |->
                          AvroValue_to_string(AvroValueFrom(entries[i][2]), env)]
              docs == [i \in 1..Len(entries) |->
                          AvroValue_to_json(AvroValueFrom(entries[i][2]), env)]
          IN  /\ (\A i \in DOMAIN strs : IsOk(strs[i])) =>
                    rendered = Ok(CommaJoined([i \in DOMAIN strs |->
                                     entries[i][1] \o ": " \o strs[i].val]))
              /\ (\A i \in DOMAIN docs : IsOk(docs[i])) =>
                    /\ IsOk(json)
                    /\ json.val.t = "obj"
                    /\ DOMAIN json.val.o = {entries[i][1] : i \in DOMAIN entries}
                    /\ \A i \in DOMAIN entries :
                          json.val.o[entries[i][1]] = docs[i].val
              /\ Len(entries) = 0 =>
                    rendered = Ok("") /\ IsOk(json) /\ DOMAIN json.val.o = {}

\* a map of two entries has been rendered and turned into JSON
C9_Witness ==
    /\ Converted
    /\ value.v.kind = "Map"
    /\ Len(value.v.entries) = 2
    /\ IsOk(rendered)
    /\ IsOk(json)

\* C10 as the specification words it: a TimestampMillis, TimestampMicros or
\* TimestampNanos of count n in range renders, and turns into the JSON
\* string, as the UTC instant n milliseconds, microseconds or nanoseconds
\* after the epoch.
C10_TimestampPrecision ==
    (Converted /\ value.v.kind \in TimestampKinds
               /\ IsOk(TimestampFrom(value.v.count, UnitOf(value.v.kind)))) =>
        LET instant == TimestampFrom(value.v.count, UnitOf(value.v.kind)).val
        IN  /\ rendered = Ok(TimestampToString(instant))
            /\ json = Ok(JStr(TimestampToString(instant)))

(***************************************************************************)
(* Properties of main (checked under Spec)                                 *)
(***************************************************************************)
\* the record rows of a file, and of the files from the n-th on
RecordsOf(f) == SelectSeq(f, LAMBDA r : IsOk(r) /\ r.val.kind = "Record")

RECURSIVE RecordsFrom(_)
RecordsFrom(n) ==
    IF n > Len(files) THEN <<>> ELSE RecordsOf(files[n]) \o RecordsFrom(n + 1)

\* row is the projection of the record of fields `fields' on names
ProjectionOf(row, fields, names) ==
    /\ Len(row) = Len(names)
    /\ \A k \in 1..Len(names) :
          /\ row[k].name = names[k]
          /\ IF \E j \in 1..Len(fields) : fields[j][1] = names[k]
             THEN \E j \in 1..Len(fields) :
                     /\ fields[j][1] = names[k]
                     /\ row[k].value = AvroValueFrom(fields[j][2])
             ELSE row[k].value = AvroValueNa
    /\ \A k1, k2 \in 1..Len(names) :
          names[k1] = names[k2] => row[k1].value = row[k2].value

\* C3: the row get_fields builds from a record has one binding for each
\* requested name, in the order of the request, under that name: the
\* record's value of that name when it has such a field, Na when not; a name
\* asked for twice gets two bindings of the same value.
C3_Projection ==
    \A r \in 1..Len(extracted_fields) :
        ProjectionOf(extracted_fields[r], RecordsFrom(1)[r].val.fields,
                     fields_to_get)

\* a record of fields firstName, age has been projected on zip, firstName
C3_Witness ==
    /\ fields_to_get = <<"zip", "firstName">>
    /\ Len(extracted_fields) >= 1
    /\ extracted_fields[1] =
          <<AvroColumnarValue("zip", AvroValueNa),
            AvroColumnarValue("firstName", AvroValueFrom(VString("Marty")))>>

\* print_as_table has printed its table for a search
TableSearched ==
    /\ pc = "done"
    /\ call # None
    /\ call.fn = "print_as_table"
    /\ call.search.tag = "Some"
    /\ IsOk(result)
    /\ Len(stdout) = 1

\* the rows of table are the rows of strs with a string the regex re
\* matches, in their order, with their strings
RowsKept(table, strs, re) ==
    LET keep == {i \in 1..Len(strs) :
                    \E k \in 1..Len(strs[i]) : strs[i][k].val \in re.matches}
        nth(n) == CHOOSE i \in keep : Cardinality({j \in keep : j <= i}) = n
    IN  /\ \A i \in 1..Len(strs) : \A k \in 1..Len(strs[i]) : IsOk(strs[i][k])
        /\ Len(table.rows) = Cardinality(keep)
        /\ \A n \in 1..Len(table.rows) :
              /\ Len(table.rows[n]) = Len(strs[nth(n)])
              /\ \A k \in 1..Len(table.rows[n]) :
                    table.rows[n][k].text = strs[nth(n)][k].val

\* C7: with a search, the table holds exactly the rows one of whose cells'
\* renderings the pattern matches, in their order, each cell with its
\* rendering as it is.
C7_TableFilter ==
    TableSearched =>
        RowsKept(stdout[1], CellStrings(extracted_fields), call.search.x)

\* of two rows the table kept one, for its second cell alone
C7_Witness ==
    /\ TableSearched
    /\ Len(extracted_fields) = 2
    /\ Len(stdout[1].rows) = 1
    /\ Len(stdout[1].rows[1]) = 2
    /\ stdout[1].rows[1][1].style = <<>>
    /\ stdout[1].rows[1][2].style = <<"Bold", "Green">>

\* print_as_json has returned
JsonCalled ==
    /\ pc = "done"
    /\ call # None
    /\ call.fn = "print_as_json"

\* to_json() of every cell of every row
CellDocs(data) ==
    [i \in 1..Len(data) |->
        [k \in 1..Len(data[i]) |-> AvroValue_to_json(data[i][k].value, env)]]

\* item is the object of a row of cell documents docs under the names
ObjectOf(item, docs, names) ==
    /\ item.doc.t = "obj"
    /\ DOMAIN item.doc.o = {names[k] : k \in 1..Len(names)}
    /\ \A k \in 1..Len(names) : item.doc.o[names[k]] = docs[k].val

\* C8 as the specification words it: print_as_json writes, for every
\* extracted row, one line that holds the row's object.
C8_OneLinePerRow ==
    JsonCalled =>
        /\ Len(stdout) = Len(extracted_fields)
        /\ \A i \in 1..Len(stdout) : stdout[i].breaks = 0

\* what print_as_json wrote, docs being the documents of the cells
JsonWritten(docs) ==
    LET failing == {i \in 1..Len(docs) :
                       \E k \in 1..Len(docs[i]) : ~IsOk(docs[i][k])}
        written == IF failing = {} THEN Len(docs)
                   ELSE (CHOOSE i \in failing : \A j \in failing : i <= j) - 1
    IN  /\ Len(stdout) = written
        /\ IsOk(result) <=> failing = {}
        /\ \A i \in 1..written :
              /\ ObjectOf(stdout[i], docs[i], fields_to_get)
              /\ ~call.pretty => stdout[i].breaks = 0
              /\ (call.pretty /\ fields_to_get # <<>>) =>
                    stdout[i].breaks >= Cardinality(DOMAIN stdout[i].doc.o) + 1

\* C8, amended: print_as_json writes, in row order, the object of each row
\* before the first row with a field that does not convert, and fails at
\* that row; the object's keys are the requested names, each with to_json of
\* its binding.  An object is one line in the compact format and several
\* lines in the pretty format unless it is empty.
C8_JsonObjects ==
    JsonCalled => JsonWritten(CellDocs(extracted_fields))

\* the pretty format has written the first of two rows on several lines and
\* failed at the second
C8_Witness ==
    /\ JsonCalled
    /\ call.pretty
    /\ Len(extracted_fields) = 2
    /\ Len(stdout) = 1
    /\ stdout[1].breaks > 0
    /\ ~IsOk(result)

\* the number of rows get_fields is to return of R record rows
RowsDue(R) == IF take.tag = "Some" /\ take.x < R THEN take.x ELSE R

\* C11: get_fields returns the first min(N, R) record rows of the files, in
\* file order and then row order, N being the rows to take and R the record
\* rows of all the files, and all R rows when there is nothing to take; the
\* rows it has built never number more than N.
C11_RowCap ==
    /\ take.tag = "Some" => Len(extracted_fields) <= take.x
    /\ pc = "print" =>
          extracted_fields =
              [i \in 1..RowsDue(Len(RecordsFrom(1))) |->
                  ExtractRow(RecordsFrom(1)[i].val.fields, fields_to_get)]

\* get_fields has returned two rows, the cap, one from the first file and
\* one of the two record rows of the second
C11_Witness ==
    /\ pc = "print"
    /\ take = Some(2)
    /\ Len(files) = 2
    /\ Len(RecordsOf(files[1])) = 1
    /\ Len(RecordsOf(files[2])) = 2
    /\ Len(extracted_fields) = 2

=============================================================================
